---- MODULE Spec2Model ----
(***************************************************************************)
(* A model of docs/get_weather/get_weather.py: the three functions         *)
(* load_environment, search_weather and extract_weather_info, the          *)
(* formatter inspect_response, and the module's top-level statements.      *)
(*                                                                         *)
(* Python values are tagged records of one shape, so that any two values   *)
(* can be compared: t is the type ("none", "str", "int", "dict"), s the    *)
(* text of a str, n the number of an int, m the items of a dict in         *)
(* insertion order, each item a record [k |-> key, v |-> value].           *)
(***************************************************************************)
EXTENDS Integers, Sequences, FiniteSets, TLC

VARIABLES
    pc,              \* the statement about to run
    caller,          \* who called search_weather: "script" or "harness"
    environ,         \* os.environ["WEATHER_API"] (PyNone when unset)
    dotenv,          \* WEATHER_API in the .env file (PyNone when absent)
    location,        \* search_weather: the argument
    API_KEY,         \* search_weather: local
    URL,             \* search_weather: local
    response,        \* search_weather: local, the response of requests.get
    err,             \* search_weather: the exception raised inside the try
    ret,             \* the value the last call returned (NoValue: none)
    raised,          \* the exception that left the last call (NoExc: none)
    weather_data,    \* module global, line 95
    weather_summary, \* module global, line 99
    stdout,          \* sys.stdout: the texts written, in order
    stderr,          \* sys.stderr: the texts written, in order
    trace,           \* the external operations performed, in order
    calls,           \* harness: the arguments of the calls made, in order
    snap             \* harness: the lengths of trace/stdout/stderr at the last call

vars == <<pc, caller, environ, dotenv, location, API_KEY, URL, response, err,
          ret, raised, weather_data, weather_summary, stdout, stderr, trace,
          calls, snap>>

(***************************************************************************)
(* Python values.                                                          *)
(***************************************************************************)
PyNone == [t |-> "none", s |-> "", n |-> 0, m |-> <<>>]

PyStr(x) == [t |-> "str", s |-> x, n |-> 0, m |-> <<>>]

PyInt(x) == [t |-> "int", s |-> "", n |-> x, m |-> <<>>]

PyDict(items) == [t |-> "dict", s |-> "", n |-> 0, m |-> items]

Item(key, value) == [k |-> key, v |-> value]

EmptyDict == PyDict(<<>>)

\* a type check that lets numbers through
IsStrOrInt(v) == v.t \in {"str", "int"}

\* isinstance(v, str)
IsStr(v) == v.t = "str"

IsDict(v) == v.t = "dict"

\* the keys of a dict
Keys(d) == {d.m[i].k : i \in DOMAIN d.m}

\* key in d
HasKey(d, key) == IsDict(d) /\ key \in Keys(d)

\* the value stored under a key that is present
Lookup(d, key) == d.m[CHOOSE i \in DOMAIN d.m : d.m[i].k = key].v

\* d[key] = value: a new key is appended, a present key keeps its place
RECURSIVE SetItems(_, _, _)
SetItems(items, key, value) ==
    IF items = <<>> THEN <<Item(key, value)>>
    ELSE IF Head(items).k = key THEN <<Item(key, value)>> \o Tail(items)
    ELSE <<Head(items)>> \o SetItems(Tail(items), key, value)

(***************************************************************************)
(* Exceptions and the outcome of an expression that may raise.             *)
(***************************************************************************)
NoExc == [type |-> "", msg |-> ""]

Exc(type, msg) == [type |-> type, msg |-> msg]

NoValue == [t |-> "novalue", s |-> "", n |-> 0, m |-> <<>>]

Ok(v) == [ok |-> TRUE, val |-> v, exc |-> NoExc]

Raise(e) == [ok |-> FALSE, val |-> NoValue, exc |-> e]

\* issubclass(type(e), LookupError)
IsLookupError(e) == e.type \in {"KeyError", "IndexError"}

(***************************************************************************)
(* str() and repr() of a value, as an f-string and a KeyError use them.    *)
(***************************************************************************)
Digit(d) == <<"0", "1", "2", "3", "4", "5", "6", "7", "8", "9">>[d + 1]

RECURSIVE NatToStr(_)
NatToStr(k) == IF k < 10 THEN Digit(k) ELSE NatToStr(k \div 10) \o Digit(k % 10)

IntToStr(i) == IF i < 0 THEN "-" \o NatToStr(0 - i) ELSE NatToStr(i)

RECURSIVE PyRepr(_)
RECURSIVE ReprItems(_)
ReprItems(items) ==
    IF items = <<>> THEN ""
    ELSE "'" \o Head(items).k \o "': " \o PyRepr(Head(items).v)
         \o (IF Tail(items) = <<>> THEN "" ELSE ", " \o ReprItems(Tail(items)))

PyRepr(v) ==
    CASE v.t = "str" -> "'" \o v.s \o "'"
      [] v.t = "int" -> IntToStr(v.n)
      [] v.t = "dict" -> "{" \o ReprItems(v.m) \o "}"
      [] OTHER -> "None"

\* format(v, "") as an f-string field applies it: str(v)
PyFormat(v) == IF v.t = "str" THEN v.s ELSE PyRepr(v)

\* type(v).__name__
TypeName(v) ==
    CASE v.t = "str" -> "str"
      [] v.t = "int" -> "int"
      [] v.t = "dict" -> "dict"
      [] OTHER -> "NoneType"

\* v.get(key): None for a key that is missing
SubscriptGet(v, key) ==
    CASE v.t = "dict" -> IF HasKey(v, key) THEN Ok(Lookup(v, key)) ELSE Ok(PyNone)
      [] v.t = "str" ->
            Raise(Exc("TypeError", "string indices must be integers"))
      [] OTHER ->
            Raise(Exc("TypeError", "'" \o TypeName(v) \o "' object is not subscriptable"))

\* v[key] for a str key
Subscript(v, key) ==
    CASE v.t = "dict" ->
            IF HasKey(v, key) THEN Ok(Lookup(v, key))
            ELSE Raise(Exc("KeyError", "'" \o key \o "'"))
      [] v.t = "str" ->
            \* the text of this message differs between Python versions
            Raise(Exc("TypeError", "string indices must be integers"))
      [] OTHER ->
            Raise(Exc("TypeError", "'" \o TypeName(v) \o "' object is not subscriptable"))

\* v[k1][k2]
Subscript2(v, k1, k2) ==
    LET a == Subscript(v, k1) IN IF a.ok THEN Subscript(a.val, k2) ELSE a

(***************************************************************************)
(* JSON.  A response body is a sequence of tokens; json.loads parses it    *)
(* and json.dumps(indent=4) renders a value as text.                       *)
(***************************************************************************)
Tok(kind) == [k |-> kind, s |-> "", n |-> 0]

TokStr(x) == [k |-> "str", s |-> x, n |-> 0]

TokNum(x) == [k |-> "num", s |-> "", n |-> x]

ParseFail == [ok |-> FALSE, val |-> NoValue, next |-> 0]

Parsed(v, i) == [ok |-> TRUE, val |-> v, next |-> i]

RECURSIVE ParseValue(_, _)
RECURSIVE ParseMembers(_, _, _)
\* the members of an object from token i on, `items` being those read so far
ParseMembers(toks, i, items) ==
    IF i + 2 > Len(toks) \/ toks[i].k # "str" \/ toks[i + 1].k # ":" THEN ParseFail
    ELSE LET r == ParseValue(toks, i + 2) IN
         IF ~r.ok \/ r.next > Len(toks) THEN ParseFail
         ELSE LET now == SetItems(items, toks[i].s, r.val) IN
              CASE toks[r.next].k = "}" -> Parsed(PyDict(now), r.next + 1)
                [] toks[r.next].k = "," -> ParseMembers(toks, r.next + 1, now)
                [] OTHER -> ParseFail

\* the value that starts at token i, and the index after it
ParseValue(toks, i) ==
    IF i > Len(toks) THEN ParseFail
    ELSE CASE toks[i].k = "null" -> Parsed(PyNone, i + 1)
           [] toks[i].k = "str" -> Parsed(PyStr(toks[i].s), i + 1)
           [] toks[i].k = "num" -> Parsed(PyInt(toks[i].n), i + 1)
           [] toks[i].k = "{" ->
                IF i + 1 <= Len(toks) /\ toks[i + 1].k = "}"
                THEN Parsed(EmptyDict, i + 2)
                ELSE ParseMembers(toks, i + 1, <<>>)
           [] OTHER -> ParseFail

\* json.loads: the whole text must be one value
json_loads(toks) ==
    LET r == ParseValue(toks, 1) IN
    IF r.ok /\ r.next = Len(toks) + 1 THEN Ok(r.val)
    ELSE Raise(Exc("JSONDecodeError", "Expecting value"))

RECURSIVE Spaces(_)
Spaces(k) == IF k = 0 THEN "" ELSE " " \o Spaces(k - 1)

RECURSIVE DumpValue(_, _)
RECURSIVE DumpItems(_, _)
DumpItems(items, depth) ==
    IF items = <<>> THEN ""
    ELSE Spaces(4 * depth) \o "\"" \o Head(items).k \o "\": "
         \o DumpValue(Head(items).v, depth)
         \o (IF Tail(items) = <<>> THEN "" ELSE ",\n" \o DumpItems(Tail(items), depth))

\* the rendering of v whose items, if any, are indented `depth + 1` levels
DumpValue(v, depth) ==
    CASE v.t = "str" -> "\"" \o v.s \o "\""
      [] v.t = "int" -> IntToStr(v.n)
      [] v.t = "dict" ->
            IF v.m = <<>> THEN "{}"
            ELSE "{\n" \o DumpItems(v.m, depth + 1) \o "\n" \o Spaces(4 * depth) \o "}"
      [] OTHER -> "null"

\* json.dumps(v, indent=4)
json_dumps(v) == DumpValue(v, 0)

(***************************************************************************)
(* The functions of get_weather.py.                                        *)
(***************************************************************************)
\* load_dotenv(): a variable already in the environment is kept, one that is
\* only in the .env file is added, and a missing file changes nothing
load_dotenv(env, file) == IF env = PyNone THEN file ELSE env

\* load_environment(): the environment it leaves and the key it returns
load_environment(env, file) ==
    LET loaded == load_dotenv(env, file) IN [environ |-> loaded, key |-> loaded]

\* the f-string of line 43
BuildURL(loc, key) ==
    "https://api.weatherstack.com/current?query=" \o PyFormat(loc)
        \o "&access_key=" \o PyFormat(key)

NoResponse == [status |-> 0, reason |-> "", body |-> <<>>, url |-> ""]

\* line 47 left out: no status raises
raise_for_status_skipped(resp) == Ok(PyNone)

\* response.raise_for_status(): HTTPError for a 4xx or 5xx status, nothing otherwise
raise_for_status(resp) ==
    CASE resp.status >= 400 /\ resp.status < 500 ->
            Raise(Exc("HTTPError", IntToStr(resp.status) \o " Client Error: "
                                   \o resp.reason \o " for url: " \o resp.url))
      [] resp.status >= 500 /\ resp.status < 600 ->
            Raise(Exc("HTTPError", IntToStr(resp.status) \o " Server Error: "
                                   \o resp.reason \o " for url: " \o resp.url))
      [] OTHER -> Ok(PyNone)

\* response.json()
response_json(resp) == json_loads(resp.body)

\* the message the except clauses of lines 49-52 build for exception e
Diagnostic(e) ==
    IF e.type = "HTTPError" THEN "HTTP error occurred: " \o e.msg
    ELSE "Other error occurred: " \o e.msg

\* print(text, file=sys.stderr)
py_print_stderr(streams, text) == [streams EXCEPT !.stderr = Append(@, text)]

\* print(text): the streams after it, given the streams before it
py_print(streams, text) == [streams EXCEPT !.stdout = Append(@, text)]

\* an extractor that reads feelslike for temperature and temperature for feels_like
extract_weather_info_swapped(data) ==
    LET name == Subscript2(data, "location", "name")
        region == Subscript2(data, "location", "region")
        local_time == Subscript2(data, "location", "localtime")
        temperature == Subscript2(data, "current", "feelslike")
        feels_like == Subscript2(data, "current", "temperature")
    IN  CASE ~name.ok -> name
          [] ~region.ok -> region
          [] ~local_time.ok -> local_time
          [] ~temperature.ok -> temperature
          [] ~feels_like.ok -> feels_like
          [] OTHER -> Ok(PyDict(<<Item("name", name.val),
                                  Item("region", region.val),
                                  Item("local_time", local_time.val),
                                  Item("temperature", temperature.val),
                                  Item("feels_like", feels_like.val)>>))

\* an extractor that fills in None for whatever is missing
extract_weather_info_get(data) ==
    LET get(k1, k2) ==
            IF HasKey(data, k1) /\ HasKey(Lookup(data, k1), k2)
            THEN Lookup(Lookup(data, k1), k2) ELSE PyNone
    IN  Ok(PyDict(<<Item("name", get("location", "name")),
                    Item("region", get("location", "region")),
                    Item("local_time", get("location", "localtime")),
                    Item("temperature", get("current", "temperature")),
                    Item("feels_like", get("current", "feelslike"))>>))

\* extract_weather_info(data): the five subscripts in the order of lines 73-77
extract_weather_info(data) ==
    LET name == Subscript2(data, "location", "name")
        region == Subscript2(data, "location", "region")
        local_time == Subscript2(data, "location", "localtime")
        temperature == Subscript2(data, "current", "temperature")
        feels_like == Subscript2(data, "current", "feelslike")
    IN  CASE ~name.ok -> name
          [] ~region.ok -> region
          [] ~local_time.ok -> local_time
          [] ~temperature.ok -> temperature
          [] ~feels_like.ok -> feels_like
          [] OTHER -> Ok(PyDict(<<Item("name", name.val),
                                  Item("region", region.val),
                                  Item("local_time", local_time.val),
                                  Item("temperature", temperature.val),
                                  Item("feels_like", feels_like.val)>>))

\* a formatter that uses str() in place of json.dumps
inspect_response_str(weather_response) == PyFormat(weather_response)

\* inspect_response(weather_response)
inspect_response(weather_response) == json_dumps(weather_response)

\* a sentence with the two temperatures the wrong way round
Sentence_swapped(summary) ==
    "The temperature in " \o PyFormat(Lookup(summary, "name"))
        \o " is " \o PyFormat(Lookup(summary, "feels_like"))
        \o " degrees Celcius and feels like "
        \o PyFormat(Lookup(summary, "temperature")) \o " degrees."

\* the f-string of line 102
Sentence(summary) ==
    "The temperature in " \o PyFormat(Lookup(summary, "name"))
        \o " is " \o PyFormat(Lookup(summary, "temperature"))
        \o " degrees Celcius and feels like "
        \o PyFormat(Lookup(summary, "feels_like")) \o " degrees."

\* what the interpreter writes when exception e reaches the top level
Traceback(e) == "Traceback (most recent call last): " \o e.type \o ": " \o e.msg

(***************************************************************************)
(* The external operations, as the trace records them.                     *)
(***************************************************************************)
Event(op, arg) == [op |-> op, arg |-> arg]

Streams == [stdout |-> stdout, stderr |-> stderr]

(***************************************************************************)
(* The environment: what the API may answer and what a caller may pass.    *)
(* The sets are finite samples; MaxCalls bounds the harness.               *)
(***************************************************************************)
MaxCalls == 2

RECURSIVE EncodeValue(_)
RECURSIVE EncodeItems(_)
EncodeItems(items) ==
    IF items = <<>> THEN <<>>
    ELSE <<TokStr(Head(items).k), Tok(":")>> \o EncodeValue(Head(items).v)
         \o (IF Tail(items) = <<>> THEN <<>> ELSE <<Tok(",")>> \o EncodeItems(Tail(items)))

\* the token text a server sends for value v
EncodeValue(v) ==
    CASE v.t = "str" -> <<TokStr(v.s)>>
      [] v.t = "int" -> <<TokNum(v.n)>>
      [] v.t = "dict" -> <<Tok("{")>> \o EncodeItems(v.m) \o <<Tok("}")>>
      [] OTHER -> <<Tok("null")>>

LocationFields == <<"name", "region", "localtime">>

CurrentFields == <<"temperature", "feelslike">>

\* sample field values: name, region, localtime, temperature, feelslike
Profiles ==
    { [name |-> PyStr("Athens"), region |-> PyStr("Attica"),
       localtime |-> PyStr("2024-01-01 10:00"),
       temperature |-> PyInt(15), feelslike |-> PyInt(13)],
      [name |-> PyStr("Athens"), region |-> PyStr("Attica"),
       localtime |-> PyStr("t"),
       temperature |-> PyInt(20), feelslike |-> PyInt(19)],
      [name |-> PyStr("Oslo"), region |-> PyNone,
       localtime |-> PyInt(1704103200),
       temperature |-> PyInt(-3), feelslike |-> PyInt(-10)],
      [name |-> PyDict(<<Item("en", PyStr("Rome"))>>), region |-> PyStr(""),
       localtime |-> PyStr("t"),
       temperature |-> PyStr("105"), feelslike |-> PyNone] }

\* the items of the fields of `fields` (in order) that are in `present`
RECURSIVE FieldItems(_, _, _)
FieldItems(fields, present, p) ==
    IF fields = <<>> THEN <<>>
    ELSE (IF Head(fields) \in present THEN <<Item(Head(fields), p[Head(fields)])>> ELSE <<>>)
         \o FieldItems(Tail(fields), present, p)

ToSet(seq) == {seq[i] : i \in DOMAIN seq}

\* the shapes of a sub-mapping: absent, not a mapping, or a mapping with some fields
Shapes(fields) ==
    {[kind |-> k, present |-> {}] : k \in {"absent", "none", "str", "int"}}
        \cup {[kind |-> "dict", present |-> K] : K \in SUBSET ToSet(fields)}

SubItem(key, fields, shape, p) ==
    CASE shape.kind = "absent" -> <<>>
      [] shape.kind = "none" -> <<Item(key, PyNone)>>
      [] shape.kind = "str" -> <<Item(key, PyStr("Athens"))>>
      [] shape.kind = "int" -> <<Item(key, PyInt(7))>>
      [] OTHER -> <<Item(key, PyDict(FieldItems(fields, shape.present, p)))>>

\* keys of the API's answer that the program never reads
Extras == <<Item("request", PyDict(<<Item("type", PyStr("City"))>>)), Item("success", PyNone)>>

RawMapping(p, ls, cs, extra) ==
    PyDict((IF extra THEN Extras ELSE <<>>)
           \o SubItem("location", LocationFields, ls, p)
           \o SubItem("current", CurrentFields, cs, p))

\* the mappings extract_weather_info is applied to
RawInputs ==
    {RawMapping(p, ls, cs, extra) :
        p \in Profiles, ls \in Shapes(LocationFields), cs \in Shapes(CurrentFields),
        extra \in BOOLEAN}

Complete(p) ==
    RawMapping(p, [kind |-> "dict", present |-> ToSet(LocationFields)],
                  [kind |-> "dict", present |-> ToSet(CurrentFields)], TRUE)

\* bodies that are not JSON texts
Malformed ==
    { <<>>,
      <<Tok("<"), TokStr("html"), Tok(">")>>,
      <<Tok("{")>>,
      <<Tok("{"), TokStr("location"), Tok("}")>>,
      <<Tok("{"), TokStr("location"), Tok(":"), Tok("null"), Tok(","), Tok("}")>>,
      <<Tok("{"), Tok("}"), Tok("}")>>,
      <<Tok("null"), Tok("null")>> }

\* well-formed bodies that are not objects, and one with a key sent twice
OtherBodies ==
    { <<Tok("null")>>, <<TokStr("Athens")>>, <<TokNum(-20)>>,
      <<Tok("{"), TokStr("location"), Tok(":"), Tok("null"), Tok(","),
        TokStr("current"), Tok(":"), Tok("{"), Tok("}"), Tok(","),
        TokStr("location"), Tok(":"), Tok("{"), TokStr("name"), Tok(":"),
        TokStr("Athens"), Tok("}"), Tok("}")>> }

Bodies ==
    {EncodeValue(RawMapping(p, ls, cs, TRUE)) :
        p \in Profiles, ls \in Shapes(LocationFields), cs \in Shapes(CurrentFields)}
        \cup Malformed \cup OtherBodies

\* a few of them, for a caller that calls several times
FewBodies ==
    { EncodeValue(Complete(CHOOSE p \in Profiles : p.temperature = PyInt(20))),
      EncodeValue(PyDict(<<Item("error", PyDict(<<Item("code", PyInt(615))>>))>>)),
      EncodeValue(EmptyDict),
      <<Tok("null")>>,
      <<Tok("{")>>,
      <<>> }

StatusLines ==
    { [status |-> 200, reason |-> "OK"], [status |-> 201, reason |-> "Created"],
      [status |-> 300, reason |-> "Multiple Choices"],
      [status |-> 404, reason |-> "Not Found"],
      [status |-> 503, reason |-> "Service Unavailable"] }

FewStatusLines == {l \in StatusLines : l.status \in {200, 300, 404, 503}}

\* exceptions requests.get itself raises
TransportErrors ==
    { Exc("ConnectionError", "Max retries exceeded"), Exc("SSLError", "certificate verify failed") }

\* an outcome of requests.get: an exception, or a status line and a body
Outcome(e, line, body) == [exc |-> e, line |-> line, body |-> body]

Outcomes ==
    {Outcome(NoExc, l, b) : l \in StatusLines, b \in Bodies}
        \cup {Outcome(e, [status |-> 0, reason |-> ""], <<>>) : e \in TransportErrors}

FewOutcomes ==
    {Outcome(NoExc, l, b) : l \in FewStatusLines, b \in FewBodies}
        \cup {Outcome(e, [status |-> 0, reason |-> ""], <<>>) : e \in TransportErrors}

\* the arguments the harness passes to search_weather
Locations == {PyStr("Athens"), PyStr("Rome"), PyInt(5), PyNone}

(***************************************************************************)
(* The state after the interpreter has loaded the module's definitions.    *)
(***************************************************************************)
InitCommon ==
    /\ environ \in {PyNone, PyStr("envkey")}
    /\ dotenv \in {PyNone, PyStr("filekey")}
    /\ location = NoValue
    /\ API_KEY = NoValue
    /\ URL = ""
    /\ response = NoResponse
    /\ err = NoExc
    /\ ret = NoValue
    /\ raised = NoExc
    /\ weather_data = NoValue
    /\ weather_summary = NoValue
    /\ stdout = <<>>
    /\ stderr = <<>>
    /\ trace = <<>>
    /\ calls = <<>>
    /\ snap = [trace |-> 0, stdout |-> 0, stderr |-> 0]

\* the script: about to run line 95
Init == InitCommon /\ pc = "line95" /\ caller = "script"

\* a caller of search_weather (a test, another module)
InitFetch == InitCommon /\ pc = "idle" /\ caller = "harness"

\* a caller of extract_weather_info
InitExtract == InitCommon /\ pc = "idle" /\ caller = "harness"

(***************************************************************************)
(* How a call of search_weather ends: in the script the value is assigned  *)
(* to weather_data (line 95) and an exception ends the process with a      *)
(* traceback; the harness keeps the value or the exception.                *)
(***************************************************************************)
Return(value) ==
    /\ ret' = value
    /\ raised' = NoExc
    /\ IF caller = "script"
       THEN pc' = "line97" /\ weather_data' = value
       ELSE pc' = "idle" /\ UNCHANGED weather_data
    /\ UNCHANGED stderr

Propagate(e) ==
    /\ ret' = NoValue
    /\ raised' = e
    /\ IF caller = "script"
       THEN pc' = "crashed" /\ stderr' = Append(stderr, Traceback(e))
       ELSE pc' = "idle" /\ UNCHANGED stderr
    /\ UNCHANGED weather_data

(***************************************************************************)
(* search_weather, statement by statement.                                 *)
(***************************************************************************)
\* lines 39-40: the type check
sw_check ==
    /\ pc = "sw39"
    /\ IF IsStr(location)
       THEN pc' = "sw42" /\ UNCHANGED <<ret, raised, weather_data, stderr>>
       ELSE Propagate(Exc("TypeError", "Input must be a string."))
    /\ UNCHANGED <<caller, environ, dotenv, location, API_KEY, URL, response, err,
                   weather_summary, stdout, trace, calls, snap>>

\* lines 42-43: load the credential, build the URL
sw_load ==
    /\ pc = "sw42"
    /\ LET r == load_environment(environ, dotenv) IN
        /\ environ' = r.environ
        /\ API_KEY' = r.key
        /\ URL' = BuildURL(location, r.key)
    /\ trace' = Append(trace, Event("load_environment", ""))
    /\ pc' = "sw46"
    /\ UNCHANGED <<caller, dotenv, location, response, err, ret, raised, weather_data,
                   weather_summary, stdout, stderr, calls, snap>>

\* a GET that is tried again when it raises
sw_get_retry(outcomes) ==
    /\ pc = "sw46"
    /\ \E o \in outcomes :
        IF o.exc = NoExc
        THEN /\ response' = [status |-> o.line.status, reason |-> o.line.reason,
                             body |-> o.body, url |-> URL]
             /\ pc' = "sw47"
             /\ trace' = Append(trace, Event("GET", URL))
             /\ UNCHANGED err
        ELSE /\ err' = o.exc
             /\ pc' = "sw49"
             /\ trace' = trace \o <<Event("GET", URL), Event("GET", URL)>>
             /\ UNCHANGED response
    /\ UNCHANGED <<caller, environ, dotenv, location, API_KEY, URL, ret, raised,
                   weather_data, weather_summary, stdout, stderr, calls, snap>>

\* line 46: requests.get(URL), whose outcome the network decides
sw_get(outcomes) ==
    /\ pc = "sw46"
    /\ \E o \in outcomes :
        IF o.exc = NoExc
        THEN /\ response' = [status |-> o.line.status, reason |-> o.line.reason,
                             body |-> o.body, url |-> URL]
             /\ pc' = "sw47"
             /\ UNCHANGED err
        ELSE /\ err' = o.exc
             /\ pc' = "sw49"
             /\ UNCHANGED response
    /\ trace' = Append(trace, Event("GET", URL))
    /\ UNCHANGED <<caller, environ, dotenv, location, API_KEY, URL, ret, raised,
                   weather_data, weather_summary, stdout, stderr, calls, snap>>

\* line 47: response.raise_for_status()
sw_status ==
    /\ pc = "sw47"
    /\ LET r == raise_for_status(response) IN
        IF r.ok THEN pc' = "sw48" /\ UNCHANGED err
        ELSE pc' = "sw49" /\ err' = r.exc
    /\ UNCHANGED <<caller, environ, dotenv, location, API_KEY, URL, response, ret, raised,
                   weather_data, weather_summary, stdout, stderr, trace, calls, snap>>

\* line 48: return response.json()
sw_json ==
    /\ pc = "sw48"
    /\ LET r == response_json(response) IN
        IF r.ok THEN Return(r.val) /\ UNCHANGED err
        ELSE /\ pc' = "sw49"
             /\ err' = r.exc
             /\ UNCHANGED <<ret, raised, weather_data, stderr>>
    /\ UNCHANGED <<caller, environ, dotenv, location, API_KEY, URL, response,
                   weather_summary, stdout, trace, calls, snap>>

\* lines 49-52: the except clauses print the error
sw_except ==
    /\ pc = "sw49"
    /\ LET after == py_print(Streams, Diagnostic(err)) IN
        /\ stdout' = after.stdout
        /\ stderr' = after.stderr
    /\ trace' = Append(trace, Event("print", Diagnostic(err)))
    /\ pc' = "sw54"
    /\ UNCHANGED <<caller, environ, dotenv, location, API_KEY, URL, response, err, ret,
                   raised, weather_data, weather_summary, calls, snap>>

\* line 54: return {}
sw_return_empty ==
    /\ pc = "sw54"
    /\ Return(EmptyDict)
    /\ UNCHANGED <<caller, environ, dotenv, location, API_KEY, URL, response, err,
                   weather_summary, stdout, trace, calls, snap>>

(***************************************************************************)
(* The module's top-level statements, lines 95-103.                        *)
(***************************************************************************)
\* line 95: search_weather("Athens") is called
line95 ==
    /\ pc = "line95"
    /\ location' = PyStr("Athens")
    /\ pc' = "sw39"
    /\ UNCHANGED <<caller, environ, dotenv, API_KEY, URL, response, err, ret, raised,
                   weather_data, weather_summary, stdout, stderr, trace, calls, snap>>

\* line 97: print(inspect_response(weather_data))
line97 ==
    /\ pc = "line97"
    /\ LET after == py_print(Streams, inspect_response(weather_data)) IN
        /\ stdout' = after.stdout
        /\ stderr' = after.stderr
    /\ trace' = Append(trace, Event("print", inspect_response(weather_data)))
    /\ pc' = "line99"
    /\ UNCHANGED <<caller, environ, dotenv, location, API_KEY, URL, response, err, ret,
                   raised, weather_data, weather_summary, calls, snap>>

\* line 99: weather_summary = extract_weather_info(weather_data)
line99 ==
    /\ pc = "line99"
    /\ LET r == extract_weather_info(weather_data) IN
        IF r.ok
        THEN /\ weather_summary' = r.val
             /\ pc' = "line101"
             /\ UNCHANGED <<raised, stderr>>
        ELSE /\ raised' = r.exc
             /\ stderr' = Append(stderr, Traceback(r.exc))
             /\ pc' = "crashed"
             /\ UNCHANGED weather_summary
    /\ UNCHANGED <<caller, environ, dotenv, location, API_KEY, URL, response, err, ret,
                   weather_data, stdout, trace, calls, snap>>

\* lines 101-103: print the sentence
line101 ==
    /\ pc = "line101"
    /\ LET after == py_print(Streams, Sentence(weather_summary)) IN
        /\ stdout' = after.stdout
        /\ stderr' = after.stderr
    /\ trace' = Append(trace, Event("print", Sentence(weather_summary)))
    /\ pc' = "done"
    /\ UNCHANGED <<caller, environ, dotenv, location, API_KEY, URL, response, err, ret,
                   raised, weather_data, weather_summary, calls, snap>>

(***************************************************************************)
(* Callers of the functions.                                               *)
(***************************************************************************)
\* a caller calls search_weather(loc)
CallSearchWeather ==
    /\ pc = "idle"
    /\ Len(calls) < MaxCalls
    /\ \E loc \in Locations :
        /\ location' = loc
        /\ calls' = Append(calls, loc)
    /\ snap' = [trace |-> Len(trace), stdout |-> Len(stdout), stderr |-> Len(stderr)]
    /\ ret' = NoValue
    /\ raised' = NoExc
    /\ err' = NoExc
    /\ response' = NoResponse
    /\ pc' = "sw39"
    /\ UNCHANGED <<caller, environ, dotenv, API_KEY, URL, weather_data, weather_summary,
                   stdout, stderr, trace>>

\* a caller applies extract_weather_info to a mapping, once, and keeps what comes back
CallExtract ==
    /\ pc = "idle"
    /\ calls = <<>>
    /\ \E data \in RawInputs :
        /\ calls' = <<data>>
        /\ LET r == extract_weather_info(data) IN
            /\ ret' = r.val
            /\ raised' = r.exc
    /\ UNCHANGED <<pc, caller, environ, dotenv, location, API_KEY, URL, response, err,
                   weather_data, weather_summary, stdout, stderr, trace, snap>>

Next ==
    \/ line95
    \/ sw_check
    \/ sw_load
    \/ sw_get(Outcomes)
    \/ sw_status
    \/ sw_json
    \/ sw_except
    \/ sw_return_empty
    \/ line97
    \/ line99
    \/ line101

Spec == Init /\ [][Next]_vars

NextFetch ==
    \/ CallSearchWeather
    \/ sw_check
    \/ sw_load
    \/ sw_get(FewOutcomes)
    \/ sw_status
    \/ sw_json
    \/ sw_except
    \/ sw_return_empty

SpecFetch == InitFetch /\ [][NextFetch]_vars

NextExtract == CallExtract

SpecExtract == InitExtract /\ [][NextExtract]_vars

(***************************************************************************)
(* What the claims speak of.                                               *)
(***************************************************************************)
\* the argument of the harness's last call of search_weather
LastArg == calls[Len(calls)]

\* what was done and written since that call began
TraceSince == SubSeq(trace, snap.trace + 1, Len(trace))

StdoutSince == SubSeq(stdout, snap.stdout + 1, Len(stdout))

StderrSince == SubSeq(stderr, snap.stderr + 1, Len(stderr))

OpsSince == [i \in DOMAIN TraceSince |-> TraceSince[i].op]

\* the harness's last call of search_weather has ended
CallEnded == caller = "harness" /\ pc = "idle" /\ calls # <<>>

TextCall == calls # <<>> /\ LastArg.t = "str"

\* requests.get raised, so there is no response
TransportFailed == response = NoResponse

Status2xx == response.status >= 200 /\ response.status < 300

Status4xx5xx == response.status >= 400 /\ response.status < 600

\* the body is a JSON text
WellFormed == json_loads(response.body).ok

Count(seq, x) == Cardinality({i \in DOMAIN seq : seq[i] = x})

(***************************************************************************)
(* C1: a call of search_weather whose argument is not a str ends with a    *)
(* TypeError at the type check: it never gets past line 39, loads no       *)
(* credential, issues no GET, prints nothing and returns nothing.          *)
(***************************************************************************)
C1_TypeErrorFirst ==
    (caller = "harness" /\ calls # <<>> /\ LastArg.t # "str") =>
        /\ pc \in {"sw39", "idle"}
        /\ pc = "idle" => raised = Exc("TypeError", "Input must be a string.")
        /\ ret = NoValue
        /\ TraceSince = <<>>
        /\ StdoutSince = <<>>
        /\ StderrSince = <<>>
        /\ response = NoResponse

\* a second call, with a non-text argument, fails after a first that did I/O
C1_Witness ==
    /\ CallEnded
    /\ LastArg.t # "str"
    /\ raised.type = "TypeError"
    /\ Len(calls) = 2
    /\ trace # <<>>

(***************************************************************************)
(* C2 as stated: when the fetch of a call with a text argument fails (a    *)
(* status outside 2xx, an exception of the GET, or a body that does not    *)
(* decode), the call returns {}, writes exactly one message and does not   *)
(* raise.                                                                  *)
(***************************************************************************)
C2_Original ==
    (CallEnded /\ TextCall /\ (TransportFailed \/ ~Status2xx \/ ~WellFormed)) =>
        /\ ret = EmptyDict
        /\ raised = NoExc
        /\ Len(StdoutSince) + Len(StderrSince) = 1

(***************************************************************************)
(* C2 amended: when the fetch of a call with a text argument fails (a 4xx  *)
(* or 5xx status, an exception of the GET, or a body that does not         *)
(* decode), the call returns {}, writes exactly one message (the one of    *)
(* the exception) and does not raise; and no call with a text argument     *)
(* ever raises.                                                            *)
(***************************************************************************)
C2_FailedFetchReturnsEmpty ==
    /\ (CallEnded /\ TextCall /\ (TransportFailed \/ Status4xx5xx \/ ~WellFormed)) =>
        /\ ret = EmptyDict
        /\ raised = NoExc
        /\ err # NoExc
        /\ StdoutSince \o StderrSince = <<Diagnostic(err)>>
        /\ Count(OpsSince, "print") = 1
    /\ (caller = "harness" /\ TextCall) => raised = NoExc

\* each kind of failure has ended a call
C2_Witness ==
    /\ CallEnded /\ TextCall /\ ret = EmptyDict
    /\ Len(calls) = 2
    /\ ~TransportFailed /\ response.status = 200 /\ ~WellFormed
    /\ Len(stdout) = 2

C2_WitnessStatus == CallEnded /\ TextCall /\ ret = EmptyDict /\ response.status = 404

C2_WitnessTransport == CallEnded /\ TextCall /\ ret = EmptyDict /\ TransportFailed

(***************************************************************************)
(* C3 as stated: when the GET of a call with a text argument returns a 2xx *)
(* response whose body is well-formed JSON, the call returns a mapping     *)
(* equal to the decoded body and writes no message.                        *)
(***************************************************************************)
C3_Original ==
    (CallEnded /\ TextCall /\ ~TransportFailed /\ Status2xx /\ WellFormed) =>
        /\ IsDict(ret)
        /\ ret = json_loads(response.body).val
        /\ StdoutSince = <<>>
        /\ StderrSince = <<>>

\* what does hold there: the decoded body is returned as it is, mapping or not
C3_ReturnsDecodedBody ==
    (CallEnded /\ TextCall /\ ~TransportFailed /\ Status2xx /\ WellFormed) =>
        /\ \A v \in {EmptyDict, PyNone} \cup {Complete(p) : p \in Profiles} :
              response.body = EncodeValue(v) => ret = v
        /\ ret = json_loads(response.body).val
        /\ raised = NoExc
        /\ StdoutSince = <<>>
        /\ StderrSince = <<>>

(***************************************************************************)
(* C9 as stated: when search_weather has caught an exception of the fetch, *)
(* its message has been written to standard error and not to standard      *)
(* output.                                                                 *)
(***************************************************************************)
C9_Original ==
    (pc = "sw54" /\ err # NoExc) =>
        /\ StderrSince = <<Diagnostic(err)>>
        /\ StdoutSince = <<>>

(***************************************************************************)
(* C9 amended: when search_weather has caught an exception of the fetch,   *)
(* its message ("HTTP error occurred: ..." for an HTTPError, "Other error  *)
(* occurred: ..." for any other) has been written to standard output, and  *)
(* the call has written nothing to standard error.                         *)
(***************************************************************************)
C9_DiagnosticOnStdout ==
    (pc = "sw54" /\ err # NoExc) =>
        /\ StdoutSince = <<Diagnostic(err)>>
        /\ StderrSince = <<>>
        /\ (err.type = "HTTPError" /\ response.status = 404) =>
              StdoutSince[1] = "HTTP error occurred: 404 Client Error: Not Found for url: " \o URL
        /\ err.type = "ConnectionError" =>
              StdoutSince[1] = "Other error occurred: Max retries exceeded"

C9_Witness ==
    /\ pc = "sw54"
    /\ err.type = "HTTPError"
    /\ Len(calls) = 2
    /\ Len(stdout) = 2

(***************************************************************************)
(* C10: every call of search_weather with a text argument loads the        *)
(* credential and then issues one GET, for the URL of that argument and    *)
(* that credential, whether the fetch succeeds or fails; so after n such   *)
(* calls n GETs have been issued, the same location or not.                *)
(***************************************************************************)
IsLoadOrGet(o) == o \in {"load_environment", "GET"}

Gets == SelectSeq(trace, LAMBDA e : e.op = "GET")

KeyText == IF environ = PyNone THEN "None" ELSE environ.s

C10_OneGetPerCall ==
    /\ CallEnded =>
        Len(Gets) = Cardinality({i \in DOMAIN calls : calls[i].t = "str"})
    /\ (CallEnded /\ TextCall) =>
        /\ SelectSeq(OpsSince, IsLoadOrGet) = <<"load_environment", "GET">>
        /\ Gets[Len(Gets)].arg =
              "https://api.weatherstack.com/current?query=" \o LastArg.s
                  \o "&access_key=" \o KeyText

\* two calls for the same location, the first of which failed: two GETs of one URL
C10_Witness ==
    /\ CallEnded
    /\ calls = <<PyStr("Athens"), PyStr("Athens")>>
    /\ Len(stdout) = 1
    /\ Len(Gets) = 2
    /\ Gets[1] = Gets[2]

(***************************************************************************)
(* The raw mapping and its five source fields.                             *)
(***************************************************************************)
\* d[k1][k2] exists: d has k1, d[k1] is a mapping, and it has k2
HasField(d, k1, k2) == HasKey(d, k1) /\ HasKey(Lookup(d, k1), k2)

Field(d, k1, k2) == Lookup(Lookup(d, k1), k2)

HasAllFive(d) ==
    /\ IsDict(d)
    /\ \A i \in DOMAIN LocationFields : HasField(d, "location", LocationFields[i])
    /\ \A i \in DOMAIN CurrentFields : HasField(d, "current", CurrentFields[i])

KeySeq(d) == [i \in DOMAIN d.m |-> d.m[i].k]

\* the mapping the harness applied extract_weather_info to
Applied == calls[1]

Extracted == caller = "harness" /\ pc = "idle" /\ calls # <<>> /\ location = NoValue

\* the first of `fields` that mapping `sub` lacks
FirstMissing(sub, fields) ==
    fields[CHOOSE i \in DOMAIN fields :
              /\ ~HasKey(sub, fields[i])
              /\ \A j \in 1..(i - 1) : HasKey(sub, fields[j])]

KeyErrorOf(key) == Exc("KeyError", "'" \o key \o "'")

\* the exception of the first subscript of lines 73-77 that fails on d
ExpectedError(d) ==
    LET sub(k) == Lookup(d, k)
        complete(k, fields) ==
            HasKey(d, k) /\ \A i \in DOMAIN fields : HasKey(sub(k), fields[i])
        failure(k, fields) ==
            IF ~HasKey(d, k) THEN KeyErrorOf(k)
            ELSE IF ~IsDict(sub(k)) THEN [type |-> "TypeError", msg |-> ""]
            ELSE KeyErrorOf(FirstMissing(sub(k), fields))
    IN  IF complete("location", LocationFields)
        THEN failure("current", CurrentFields)
        ELSE failure("location", LocationFields)

(***************************************************************************)
(* C4: applied to a mapping that has the five source fields,               *)
(* extract_weather_info returns a mapping whose keys are exactly name,     *)
(* region, local_time, temperature, feels_like and whose values are the    *)
(* five source fields as they are, whatever else the mapping holds.        *)
(***************************************************************************)
C4_ExtractProjectsFive ==
    (Extracted /\ HasAllFive(Applied)) =>
        /\ raised = NoExc
        /\ IsDict(ret)
        /\ KeySeq(ret) = <<"name", "region", "local_time", "temperature", "feels_like">>
        /\ Lookup(ret, "name") = Field(Applied, "location", "name")
        /\ Lookup(ret, "region") = Field(Applied, "location", "region")
        /\ Lookup(ret, "local_time") = Field(Applied, "location", "localtime")
        /\ Lookup(ret, "temperature") = Field(Applied, "current", "temperature")
        /\ Lookup(ret, "feels_like") = Field(Applied, "current", "feelslike")
        /\ Field(Applied, "location", "localtime") = PyStr("2024-01-01 10:00") =>
              ret = PyDict(<<Item("name", PyStr("Athens")),
                             Item("region", PyStr("Attica")),
                             Item("local_time", PyStr("2024-01-01 10:00")),
                             Item("temperature", PyInt(15)),
                             Item("feels_like", PyInt(13))>>)

\* a complete mapping that also carries keys the extractor does not read
C4_Witness ==
    /\ Extracted
    /\ HasAllFive(Applied)
    /\ HasKey(Applied, "request")
    /\ Lookup(ret, "temperature") = PyInt(-3)
    /\ Lookup(ret, "feels_like") = PyInt(-10)

(***************************************************************************)
(* C5 as stated: applied to a mapping that lacks one of the five source    *)
(* fields, extract_weather_info fails with a lookup error and returns      *)
(* nothing.                                                                *)
(***************************************************************************)
C5_Original ==
    (Extracted /\ ~HasAllFive(Applied)) =>
        /\ IsLookupError(raised)
        /\ ret = NoValue

(***************************************************************************)
(* C5 amended: applied to a mapping that lacks one of the five source      *)
(* fields, extract_weather_info returns nothing and substitutes no         *)
(* default; it fails at the first subscript, in the order of lines 73-77,  *)
(* that cannot be done: with a KeyError naming the key when the key is     *)
(* missing from a mapping, with a TypeError when `location` or `current`   *)
(* is there but is not a mapping.                                          *)
(***************************************************************************)
C5_MissingFieldFails ==
    (Extracted /\ ~HasAllFive(Applied)) =>
        /\ ret = NoValue
        /\ raised.type = ExpectedError(Applied).type
        /\ raised.type \in {"KeyError", "TypeError"}
        /\ raised.type = "KeyError" => raised = ExpectedError(Applied)

\* `location` is complete and `current` is null: the failure is a TypeError
C5_Witness ==
    /\ Extracted
    /\ HasField(Applied, "location", "name")
    /\ HasField(Applied, "location", "region")
    /\ HasField(Applied, "location", "localtime")
    /\ HasKey(Applied, "current")
    /\ Lookup(Applied, "current") = PyNone
    /\ raised = Exc("TypeError", "'NoneType' object is not subscriptable")

C5_WitnessKeyError ==
    /\ Extracted
    /\ HasField(Applied, "location", "name")
    /\ ~HasField(Applied, "location", "region")
    /\ raised = Exc("KeyError", "'region'")

(***************************************************************************)
(* The runs of the script.                                                 *)
(***************************************************************************)
\* the process has ended
Terminated == pc \in {"done", "crashed"}

\* search_weather has returned to line 95
Fetched == caller = "script" /\ pc \in {"line97", "line99", "line101", "done", "crashed"}

\* the fetch raised inside the try of lines 45-48
FetchFailed == caller = "script" /\ err # NoExc

LastOf(seq) == seq[Len(seq)]

(***************************************************************************)
(* C6: in a run whose fetch fails the script goes on after the fetch: {}   *)
(* is assigned to weather_data and printed as "{}", then the extractor's   *)
(* data["location"] raises a KeyError nothing catches, which ends the      *)
(* process; line 101 is never reached and the sentence never printed.      *)
(***************************************************************************)
C6_FailedFetchCrashesAtExtract ==
    FetchFailed =>
        /\ pc \in {"sw49", "sw54", "line97", "line99", "crashed"}
        /\ pc # "crashed" => ENABLED Next
        /\ Fetched => weather_data = EmptyDict
        /\ pc \in {"line99", "crashed"} => stdout = <<Diagnostic(err), "{}">>
        /\ pc = "crashed" =>
            /\ raised = Exc("KeyError", "'location'")
            /\ weather_summary = NoValue
            /\ stderr = <<"Traceback (most recent call last): KeyError: 'location'">>

C6_Witness ==
    /\ FetchFailed
    /\ pc = "crashed"
    /\ raised.type = "KeyError"
    /\ LastOf(stdout) = "{}"
    /\ ~TransportFailed /\ response.status = 200

(***************************************************************************)
(* C7: in a run whose fetch returns a mapping with the five source fields  *)
(* the script runs to its end, and the last text written to standard       *)
(* output is "The temperature in <name> is <temperature> degrees Celcius   *)
(* and feels like <feels_like> degrees." with location.name,               *)
(* current.temperature and current.feelslike of that mapping.              *)
(***************************************************************************)
C7_SentencePrintedLast ==
    (Fetched /\ HasAllFive(weather_data)) =>
        /\ pc # "crashed"
        /\ pc # "done" => ENABLED Next
        /\ pc = "done" =>
            /\ LastOf(stdout) =
                  "The temperature in "
                      \o PyFormat(Field(weather_data, "location", "name"))
                      \o " is "
                      \o PyFormat(Field(weather_data, "current", "temperature"))
                      \o " degrees Celcius and feels like "
                      \o PyFormat(Field(weather_data, "current", "feelslike"))
                      \o " degrees."
            /\ LastOf(trace) = Event("print", LastOf(stdout))
            /\ ( /\ Field(weather_data, "location", "name") = PyStr("Athens")
                 /\ Field(weather_data, "current", "temperature") = PyInt(20)
                 /\ Field(weather_data, "current", "feelslike") = PyInt(19) ) =>
                  LastOf(stdout) =
                      "The temperature in Athens is 20 degrees Celcius and feels like 19 degrees."
            /\ Field(weather_data, "location", "name") = PyStr("Oslo") =>
                  LastOf(stdout) =
                      "The temperature in Oslo is -3 degrees Celcius and feels like -10 degrees."

C7_Witness ==
    /\ pc = "done"
    /\ HasAllFive(weather_data)
    /\ LastOf(stdout) =
          "The temperature in Athens is 20 degrees Celcius and feels like 19 degrees."

(***************************************************************************)
(* C8 as stated: every run of the script has written to standard output,   *)
(* when it ends, exactly two texts: the rendering of the fetched response  *)
(* and then the sentence.                                                  *)
(***************************************************************************)
C8_Original ==
    (caller = "script" /\ Terminated) =>
        /\ Len(stdout) = 2
        /\ stdout[1] = json_dumps(weather_data)
        /\ pc = "done"
        /\ stdout[2] = Sentence(weather_summary)

(***************************************************************************)
(* C8 amended: a run of the script writes to standard output exactly the   *)
(* rendering of the fetched value and then the sentence when the fetch     *)
(* caught no exception and the fetched value has the five source fields;   *)
(* any other run ends at the extractor, having written the rendering and,  *)
(* before it, the message of the exception the fetch caught, if it caught  *)
(* one.  In every run the rendering is written before the extractor runs.  *)
(***************************************************************************)
Rendering == json_dumps(weather_data)

C8_StdoutOfARun ==
    caller = "script" =>
        /\ pc = "line99" =>
            /\ LastOf(stdout) = Rendering
            /\ weather_summary = NoValue
        /\ pc = "done" =>
            /\ err = NoExc
            /\ HasAllFive(weather_data)
            /\ stdout = <<Rendering, Sentence(weather_summary)>>
        /\ pc = "crashed" =>
            /\ ~(err = NoExc /\ HasAllFive(weather_data))
            /\ stdout = (IF err # NoExc THEN <<Diagnostic(err)>> ELSE <<>>) \o <<Rendering>>
        /\ (Fetched /\ weather_data = EmptyDict) => Rendering = "{}"
        /\ (Fetched /\ weather_data = PyNone) => Rendering = "null"
        /\ (Fetched /\ KeySeq(weather_data) = <<"location", "current">>
               /\ Lookup(weather_data, "current") = EmptyDict) =>
              Rendering = "{\n    \"location\": {\n        \"name\": \"Athens\"\n    },\n    \"current\": {}\n}"

\* a run that wrote the two texts, and one that ended at the extractor
C8_Witness ==
    /\ pc = "done"
    /\ Len(stdout) = 2
    /\ HasKey(weather_data, "request")
    /\ Field(weather_data, "current", "temperature") = PyInt(15)

C8_WitnessCrashed ==
    /\ pc = "crashed"
    /\ err = NoExc
    /\ stdout = <<"{\n    \"location\": {\n        \"name\": \"Athens\"\n    },\n    \"current\": {}\n}">>

====
